---- MODULE Spec2Model ----
(***************************************************************************)
(* Model of the tool-augmented conversation loop of SRE-Scanner            *)
(* (src/agent/agent.py function_call), the capability registry             *)
(* (src/agent/functions.py) and the event loop that runs it (asyncio.run   *)
(* in src/main.py).                                                        *)
(***************************************************************************)
EXTENDS Integers, Sequences, FiniteSets, TLC

(* ------------------------------ bounds --------------------------------- *)
\* backend requests issued in one session
MaxRounds == 3
\* tool-call requests issued by the backend in one session
MaxCalls == 3

(* --------------------------- python values ----------------------------- *)
PyNone == [py |-> "None"]
Str(s) == [py |-> "str", s |-> s]

\* json.loads failure (json.JSONDecodeError)
DecodeError == [py |-> "JSONDecodeError"]

\* json.loads of a JSON array: a list, which `**args` cannot unpack
JsonArray == [py |-> "list"]

(* ------------------------- capability registry ------------------------- *)
\* function_map: the names that have a handler
function_map ==
  {"scan_directory_fuzzing", "scan_sql_injection", "scan_template_injection",
   "scan_subdomain_enumeration", "scan_port_scanning", "fetch_url_content"}

\* the analysis flavors that run function_call
Flavors == {"url_injection_analysis", "generate_domain_analysis"}

\* every analysis main can start
Analyses == Flavors \cup {"website_full_analysis"}

\* the whole of all_tools handed to the backend, unfiltered
ExposedToolsAll(f) == function_map

\* url_tools / domain_tools: the subset of all_tools handed to the backend
ExposedTools(f) ==
  IF f = "url_injection_analysis"
    THEN {"scan_sql_injection", "scan_template_injection", "fetch_url_content"}
    ELSE {"scan_subdomain_enumeration", "scan_port_scanning"}

\* parameters each handler declares, and those without a default
Params(name) ==
  CASE name = "scan_directory_fuzzing" -> {"target_url", "wordlist", "threads", "match_codes"}
    [] name = "scan_sql_injection" -> {"target_url", "data", "options"}
    [] name = "scan_template_injection" -> {"target_url", "extra_args"}
    [] name = "scan_subdomain_enumeration" -> {"target_host", "extra_args"}
    [] name = "scan_port_scanning" -> {"target", "ports", "scan_type", "service_detection"}
    [] name = "fetch_url_content" -> {"url"}
    [] OTHER -> {}

Required(name) ==
  CASE name = "scan_directory_fuzzing" -> {"target_url"}
    [] name = "scan_sql_injection" -> {"target_url"}
    [] name = "scan_template_injection" -> {"target_url"}
    [] name = "scan_subdomain_enumeration" -> {"target_host"}
    [] name = "scan_port_scanning" -> {"target"}
    [] name = "fetch_url_content" -> {"url"}
    [] OTHER -> {}

\* handlers that let an exception escape (the others catch Exception);
\* scan_sql_injection awaits start() outside its try
MayRaise(name) ==
  name \in {"scan_directory_fuzzing", "scan_template_injection",
            "scan_subdomain_enumeration", "scan_sql_injection"}

\* scan_port_scanning never awaits: it runs to completion in its first step
Synchronous(name) == name = "scan_port_scanning"

(* ------------------------ argument payloads ---------------------------- *)
\* json.loads on the raw texts the backend sends in this model
JsonLoads(text) ==
  CASE text = "{\"url\": \"http://a/\"}" -> [x \in {"url"} |-> "http://a/"]
    [] text = "{\"url\": \"http://b/\"}" -> [x \in {"url"} |-> "http://b/"]
    [] text = "{\"target_url\": \"http://a/?n=1\"}" -> [x \in {"target_url"} |-> "http://a/?n=1"]
    [] text = "{\"target_url\": \"http://a/FUZZ\"}" -> [x \in {"target_url"} |-> "http://a/FUZZ"]
    [] text = "{\"target_host\": \"a.com\"}" -> [x \in {"target_host"} |-> "a.com"]
    [] text = "{\"target\": \"a.com\"}" -> [x \in {"target"} |-> "a.com"]
    [] text = "{}" -> [x \in {} |-> ""]
    [] text = "{\"target_url\": \"http://a/?n=1\", \"level\": \"2\"}" ->
         [x \in {"target_url", "level"} |->
            IF x = "target_url" THEN "http://a/?n=1" ELSE "2"]
    [] text = "[\"http://a/?n=1\"]" -> JsonArray
    [] OTHER -> DecodeError

\* a handler that accepts whatever it is given
BindsAnything(name, args) == TRUE

\* function_map[name](**args): do the decoded arguments bind to the handler
Binds(name, args) ==
  /\ args # JsonArray
  /\ Required(name) \subseteq DOMAIN args
  /\ DOMAIN args \subseteq Params(name)

\* the (name, arguments) pairs the backend asks for in this model
RequestPool ==
  { [name |-> "fetch_url_content", arguments |-> "{\"url\": \"http://a/\"}"],
    [name |-> "fetch_url_content", arguments |-> "{\"url\": \"http://b/\"}"],
    [name |-> "scan_template_injection", arguments |-> "{\"target_url\": \"http://a/?n=1\"}"],
    [name |-> "scan_sql_injection", arguments |-> "{"],
    [name |-> "scan_directory_fuzzing", arguments |-> "{\"target_url\": \"http://a/FUZZ\"}"],
    [name |-> "scan_port_scanning", arguments |-> "{\"target\": \"a.com\"}"],
    [name |-> "crawl_website", arguments |-> "{\"url\": \"http://a/\"}"],
    [name |-> "scan_template_injection", arguments |-> "{}"],
    [name |-> "scan_template_injection",
     arguments |-> "{\"target_url\": \"http://a/?n=1\", \"level\": \"2\"}"],
    [name |-> "scan_template_injection", arguments |-> "[\"http://a/?n=1\"]"] }

\* text of a final answer
Contents == {PyNone, Str("no capabilities needed")}

(* --------------------------- handler results --------------------------- *)
\* what the handler of a running coroutine returns: fetch_url_content gives
\* None on a status other than 200 (http://b/ here), the scans give their data
HandlerReturn(task) ==
  IF task.name = "fetch_url_content" /\ task.kwargs["url"] = "http://b/"
    THEN PyNone
    ELSE [py |-> "data", by |-> task.name, kwargs |-> task.kwargs]

\* default of scan_port_scanning's service_detection parameter
ServiceDetectionDefault == FALSE

\* the parameters of scan_port_scanning after binding the keyword arguments
PortScanBound(kwargs) ==
  [ports |-> IF "ports" \in DOMAIN kwargs THEN kwargs["ports"] ELSE "",
   scan_type |-> IF "scan_type" \in DOMAIN kwargs THEN kwargs["scan_type"] ELSE "tcp",
   service_detection |-> IF "service_detection" \in DOMAIN kwargs
                           THEN kwargs["service_detection"]
                           ELSE ServiceDetectionDefault]

\* the nmap flag of a scan type (none for a type the handler does not know)
ScanTypeFlag(scan_type) ==
  CASE scan_type = "tcp" -> <<"-sT">>
    [] scan_type = "syn" -> <<"-sS">>
    [] scan_type = "udp" -> <<"-sU">>
    [] scan_type = "fin" -> <<"-sF">>
    [] scan_type = "xmas" -> <<"-sX">>
    [] scan_type = "null" -> <<"-sN">>
    [] scan_type = "ack" -> <<"-sA">>
    [] OTHER -> <<>>

\* nmap_args as scan_port_scanning builds it
NmapArgs(kwargs) ==
  LET b == PortScanBound(kwargs)
  IN  ScanTypeFlag(b.scan_type)
        \o (IF b.service_detection = TRUE THEN <<"-sV">> ELSE <<>>)

\* json.dumps(result, ensure_ascii=False): the JSON text of a value
Dumps(v) == IF v = PyNone THEN Str("null") ELSE [py |-> "str", json |-> v]


(* ------------------------------- state --------------------------------- *)
VARIABLES
  flavor,      \* which analysis called function_call (fixes the tools argument)
  messages,    \* the conversation history (the list function_call appends to)
  pc,          \* position of function_call / the event loop
  k,           \* index of the for-loop that is running (1-based)
  roundStart,  \* index in messages of the current round's assistant message
  tasks,       \* the coroutine objects created for the current round
  hstate,      \* state of each handler of the current round
  completed,   \* indices of the handlers that returned, in completion order
  results,     \* what asyncio.gather returned for the current round
  requests,    \* backend requests issued so far
  ncalls,      \* tool-call requests received so far
  result,      \* return value of function_call
  err,         \* exception that left function_call
  sent,        \* the tools argument of each backend request issued
  notes,       \* the calls made on the progress observer, in order
  sqlmap,      \* sqlmap_scanner and the scan_sql_injection calls using it
  cli,         \* one invocation of main(): its arguments and where it is
  files,       \* per-target output files and the handlers sharing them
  webtree      \* the WebTree check and scan of a full-site analysis

vars == <<flavor, messages, pc, k, roundStart, tasks, hstate, completed,
          results, requests, ncalls, result, err, sent, notes, sqlmap,
          cli, files, webtree>>

NoValue == [py |-> "unset"]

(* --------------------------- message shapes ---------------------------- *)
\* the seed message the analysis functions build
UserMessage(f) == [role |-> "user", content |-> Str(f)]

\* ChatCompletionMessage returned by the backend
AssistantMessage(content, present, calls) ==
  [role |-> "assistant", content |-> content,
   tool_calls_present |-> present, tool_calls |-> calls]

\* the dict appended for one request
ToolMessage(tc, res) ==
  [role |-> "tool", tool_call_id |-> tc.id, content |-> Dumps(res)]

\* `if msg.tool_calls:` -- None and the empty list are both falsy
HasToolCalls(msg) == msg.tool_calls_present /\ msg.tool_calls # <<>>

\* the content handed back as it is, None included
ReturnValueRaw(msg) == msg.content

\* `return msg.content or ""`
ReturnValue(msg) == IF msg.content = PyNone THEN Str("") ELSE msg.content

\* the requests of the round in progress
tool_calls == IF roundStart = 0 THEN <<>> ELSE messages[roundStart].tool_calls

(* ------------------------- backend decisions --------------------------- *)
\* ids the backend gives the n requests of round r: unique, and in either
\* direction so that an id never coincides with a position by construction
CallIds(r, n) ==
  { [i \in 1..n |-> 10 * r + i], [i \in 1..n |-> 10 * r + (n + 1 - i)] }

ToolDecisions(r, budget) ==
  UNION { { AssistantMessage(PyNone, TRUE,
              [i \in 1..n |-> [id |-> ids[i], name |-> reqs[i].name,
                               arguments |-> reqs[i].arguments]]) :
            reqs \in [1..n -> RequestPool], ids \in CallIds(r, n) } :
          n \in 1..budget }

FinalDecisions ==
  { AssistantMessage(c, p, <<>>) : c \in Contents, p \in BOOLEAN }

(* -------------------------- progress observer -------------------------- *)
\* progress.add_task("...Function call", total=100), once, before the loop
AddTaskNote == [kind |-> "add_task", id |-> 0, name |-> ""]

\* no notification for a request about to start
StartingNotesNone(tc) == <<>>

\* progress.update(task_id, description="... {name}...") in the start loop
StartingNotes(tc) == <<[kind |-> "starting", id |-> tc.id, name |-> tc.name]>>

\* progress.update(task_id, description="... {name} ...") in the append loop
FinishedNotes(tc) == <<[kind |-> "finished", id |-> tc.id, name |-> tc.name]>>

\* progress.update(task_id, completed=100) after the loop
CompletedNote == [kind |-> "completed", id |-> 0, name |-> ""]

(* -------------------------------- main --------------------------------- *)
\* main() is not running
CliOff == [pc |-> "off"]

\* no handler is using an output file
FilesOff == [pc |-> "off"]

\* website_full_analysis has not been entered: nothing checked, no scan, no
\* WebTree process
WebTreeInit ==
  [entered |-> FALSE, checked |-> "none", scan |-> "none", proc |-> "none",
   started |-> 0]

(* ------------------------------- sqlmap -------------------------------- *)
\* the coroutines that can be inside scan_sql_injection at the same time
Slots == {1, 2}

\* sqlmap_scanner = Sqlmap(): __init__ sets no process attribute
SqlmapInit ==
  [process |-> [state |-> "noattr"], spawned |-> 0,
   hpc |-> [s \in Slots |-> "idle"], calls |-> 0,
   overlap |-> FALSE, erred |-> FALSE,
   phase |-> "start", inround |-> {},
   task |-> [s \in Slots |-> 0], ntasks |-> 0,
   deleted |-> {}, ndeletes |-> 0,
   polls |-> [s \in Slots |-> 0], exitpoll |-> [s \in Slots |-> "none"],
   retval |-> [s \in Slots |-> "none"], outcome |-> [s \in Slots |-> "none"],
   calledAt |-> [s \in Slots |-> 0],
   file |-> [exists |-> FALSE, list |-> <<>>],
   file0 |-> <<>>, found |-> <<>>]

(* ------------------------ website_full_analysis ------------------------ *)
\* the full-site analysis entering the decision loop like the other flavors
SiteEntryLoop == "request"

\* where the full-site analysis starts: its own body (agent.py lines 99-124),
\* which holds no call of function_call
SiteEntry == "site_call"

\* the texts website_full_analysis returns
SiteUnavailable == Str("WebTree tool unavailable")
SiteSuccess == Str("WebTree scan finished, with the scan output")
SiteNoFindings == Str("WebTree scan finished, nothing found")
SiteFailed == Str("WebTree scan failed")

\* a progress.update of website_full_analysis
SiteNote(what) == [kind |-> "site", id |-> 0, name |-> what]

\* parameters website_full_analysis declares: progress, website, use_poc
SiteParams == 3

(* -------------------------------- Init --------------------------------- *)
Init ==
  /\ flavor \in Analyses
  /\ messages = IF flavor \in Flavors THEN <<UserMessage(flavor)>> ELSE <<>>
  /\ pc = IF flavor \in Flavors THEN "request" ELSE SiteEntry
  /\ k = 0
  /\ roundStart = 0
  /\ tasks = <<>>
  /\ hstate = <<>>
  /\ completed = <<>>
  /\ results = <<>>
  /\ requests = 0
  /\ ncalls = 0
  /\ result = NoValue
  /\ err = "none"
  /\ sent = <<>>
  /\ notes = <<AddTaskNote>>
  /\ sqlmap = SqlmapInit
  /\ cli = CliOff
  /\ files = FilesOff
  /\ webtree = WebTreeInit

(* ------------------------------ function_call -------------------------- *)
\* the new message put in front of the history
InsertMessage(msgs, m) == <<m>> \o msgs

\* messages.append(msg)
AppendMessage(msgs, m) == Append(msgs, m)

\* client.chat.completions.create(...); msg = resp.choices[0].message;
\* messages.append(msg); then the branch on msg.tool_calls
Decide ==
  /\ pc = "request"
  /\ requests < MaxRounds
  /\ \E msg \in FinalDecisions \cup ToolDecisions(requests + 1, MaxCalls - ncalls) :
       /\ messages' = AppendMessage(messages, msg)
       /\ requests' = requests + 1
       /\ sent' = Append(sent, ExposedTools(flavor))
       /\ ncalls' = ncalls + Len(msg.tool_calls)
       /\ IF HasToolCalls(msg)
            THEN /\ pc' = "start"
                 /\ k' = 1
                 /\ roundStart' = Len(messages) + 1
                 /\ tasks' = <<>>
                 /\ hstate' = <<>>
                 /\ completed' = <<>>
                 /\ results' = <<>>
            ELSE /\ pc' = "finish"
                 /\ UNCHANGED <<k, roundStart, tasks, hstate, completed, results>>
  /\ UNCHANGED <<flavor, notes, sqlmap, cli, files, webtree, result, err>>

\* an exception leaves function_call
Raise(e) ==
  /\ pc' = "raised"
  /\ err' = e

\* the failed request is issued again
AfterBackendErrorRetry == "request"

\* where control goes when create() raises: there is no try around line 29,
\* the exception leaves function_call
AfterBackendError == "raised"

\* client.chat.completions.create(...) raises (transport or protocol failure)
BackendError ==
  /\ pc = "request"
  /\ requests < MaxRounds
  /\ requests' = requests + 1
  /\ sent' = Append(sent, ExposedTools(flavor))
  /\ pc' = AfterBackendError
  /\ err' = "BackendError"
  /\ UNCHANGED <<flavor, notes, sqlmap, cli, files, webtree, messages, k, roundStart, tasks, hstate,
                 completed, results, ncalls, result>>

\* what `msg` is when the first choice carries no message: Python's None
NoMessage == [role |-> "None"]

\* the response lacks the decision: with no first choice, resp.choices[0]
\* raises (line 35); with a first choice whose message is None, line 36
\* appends None and line 37 raises on msg.tool_calls
MalformedResponse ==
  /\ pc = "request"
  /\ requests < MaxRounds
  /\ requests' = requests + 1
  /\ sent' = Append(sent, ExposedTools(flavor))
  /\ \/ Raise("IndexError") /\ UNCHANGED messages
     \/ Raise("AttributeError") /\ messages' = AppendMessage(messages, NoMessage)
  /\ UNCHANGED <<flavor, notes, sqlmap, cli, files, webtree, k, roundStart, tasks, hstate,
                 completed, results, ncalls, result>>

\* the handler body starts running at the call
InvokeEager == "running"

\* state of a coroutine object right after function_map[name](**args):
\* calling an async def runs none of its body
Invoke == "created"

\* one iteration of `for tool_call in tool_calls:` (lines 40-45)
CreateTask ==
  /\ pc = "start"
  /\ k <= Len(tool_calls)
  /\ LET tc == tool_calls[k]
         args == JsonLoads(tc.arguments)
     IN  IF args = DecodeError
           THEN Raise("JSONDecodeError") /\ UNCHANGED <<k, tasks, hstate, notes>>
         ELSE /\ notes' = notes \o StartingNotes(tc)
              /\ IF tc.name \notin function_map
                   THEN Raise("KeyError") /\ UNCHANGED <<k, tasks, hstate>>
                 ELSE IF ~Binds(tc.name, args)
                   THEN Raise("TypeError") /\ UNCHANGED <<k, tasks, hstate>>
                 ELSE /\ tasks' = Append(tasks, [name |-> tc.name, kwargs |-> args])
                      /\ hstate' = Append(hstate, Invoke)
                      /\ k' = k + 1
                      /\ UNCHANGED <<pc, err>>
  /\ UNCHANGED <<flavor, sent, sqlmap, cli, files, webtree, messages, roundStart, completed, results, requests,
                 ncalls, result>>

\* `await asyncio.gather(*tasks)`: every coroutine becomes a scheduled task
Gather ==
  /\ pc = "start"
  /\ k > Len(tool_calls)
  /\ pc' = "gather"
  /\ hstate' = [i \in 1..Len(hstate) |-> "scheduled"]
  /\ UNCHANGED <<flavor, sent, notes, sqlmap, cli, files, webtree, messages, k, roundStart, tasks, completed, results,
                 requests, ncalls, result, err>>

(* ------------------------------ event loop ----------------------------- *)
InFlight(h) == h \in {"scheduled", "running"}

\* the ready queue is first-in first-out: the tasks take their first step in
\* the order gather scheduled them, before any of them is resumed
FirstScheduled(hs) ==
  IF \E i \in 1..Len(hs) : hs[i] = "scheduled"
    THEN CHOOSE i \in 1..Len(hs) :
           /\ hs[i] = "scheduled"
           /\ \A j \in 1..(i - 1) : hs[j] # "scheduled"
    ELSE 0

\* first step of a handler: it runs up to its first suspension; a handler that
\* never awaits (scan_port_scanning) runs to its return in that one step
StartHandler ==
  /\ pc = "gather"
  /\ FirstScheduled(hstate) # 0
  /\ LET i == FirstScheduled(hstate)
     IN  IF Synchronous(tasks[i].name)
           THEN /\ hstate' = [hstate EXCEPT ![i] = "done"]
                /\ completed' = Append(completed, i)
           ELSE /\ hstate' = [hstate EXCEPT ![i] = "running"]
                /\ UNCHANGED completed
  /\ UNCHANGED <<flavor, sent, notes, sqlmap, cli, files, webtree, messages, pc, k, roundStart, tasks, results, requests,
                 ncalls, result, err>>

\* a suspended handler is resumed and returns
FinishHandler(i) ==
  /\ pc \in {"gather", "raised"}
  /\ FirstScheduled(hstate) = 0
  /\ hstate[i] = "running"
  /\ hstate' = [hstate EXCEPT ![i] = "done"]
  /\ completed' = Append(completed, i)
  /\ UNCHANGED <<flavor, sent, notes, sqlmap, cli, files, webtree, messages, pc, k, roundStart, tasks, results, requests,
                 ncalls, result, err>>

\* a suspended handler is resumed and raises
FailHandler(i) ==
  /\ pc \in {"gather", "raised"}
  /\ FirstScheduled(hstate) = 0
  /\ hstate[i] = "running"
  /\ MayRaise(tasks[i].name)
  /\ hstate' = [hstate EXCEPT ![i] = "failed"]
  /\ UNCHANGED <<flavor, sent, notes, sqlmap, cli, files, webtree, messages, pc, k, roundStart, tasks, completed, results,
                 requests, ncalls, result, err>>

\* resolving at the first child that returns (FIRST_COMPLETED)
GatherReadyFirst(hs) == \E i \in 1..Len(hs) : hs[i] = "done"

\* resolving once every child has settled, faults included
\* (return_exceptions=True)
GatherReadySettled(hs) == \A i \in 1..Len(hs) : hs[i] \in {"done", "failed"}

\* gather resolves once every child has returned
GatherReady(hs) == \A i \in 1..Len(hs) : hs[i] = "done"

\* gather (return_exceptions=False) hands the first exception to its awaiter
GatherPropagates(hs) == \E i \in 1..Len(hs) : hs[i] = "failed"

\* the values in the order the children completed (as_completed)
GatherResultsArrival(ts, order) ==
  [i \in 1..Len(ts) |-> HandlerReturn(ts[order[i]])]

\* the list gather returns: one value per awaitable, in the order of the
\* awaitables it was given
GatherResults(ts, order) == [i \in 1..Len(ts) |-> HandlerReturn(ts[i])]

\* `results = await asyncio.gather(*tasks)` returns
GatherReturn ==
  /\ pc = "gather"
  /\ GatherReady(hstate)
  /\ results' = GatherResults(tasks, completed)
  /\ pc' = "append"
  /\ k' = 1
  /\ UNCHANGED <<flavor, sent, notes, sqlmap, cli, files, webtree, messages, roundStart, tasks, hstate, completed,
                 requests, ncalls, result, err>>

\* `await asyncio.gather(*tasks)` raises: the exception leaves function_call,
\* the other children are left as they are
GatherRaise ==
  /\ pc = "gather"
  /\ FirstScheduled(hstate) = 0
  /\ GatherPropagates(hstate)
  /\ Raise("CapabilityFault")
  /\ UNCHANGED <<flavor, sent, notes, sqlmap, cli, files, webtree, messages, k, roundStart, tasks, hstate, completed,
                 results, requests, ncalls, result>>

\* iterating over the requests in the order their handlers completed
AppendIndexArrival(order, i) == order[i]

\* the request whose message the k-th iteration of
\* `for i, tool_call in enumerate(tool_calls)` appends
AppendIndex(order, i) == i

\* appending only results that are truthy (`if result:`)
ResultMessagesSkipFalsy(tc, res) ==
  IF res = PyNone THEN <<>> ELSE <<[role |-> "tool", tool_call_id |-> tc.id, content |-> Dumps(res)]>>

\* the messages one iteration appends
ResultMessages(tc, res) == <<ToolMessage(tc, res)>>

\* a guard that leaves the loop after two rounds
WhileRoundCap(r) == r < 2

\* `while True:` -- the loop condition, whatever the number of rounds so far
WhileTrue(r) == TRUE

\* one iteration of the append loop (lines 49-57); after the last one
\* `continue` goes back to the backend request
AppendResult ==
  /\ pc = "append"
  /\ k <= Len(tool_calls)
  /\ LET i == AppendIndex(completed, k)
     IN  /\ notes' = notes \o FinishedNotes(tool_calls[i])
         /\ messages' = messages \o ResultMessages(tool_calls[i], results[i])
  /\ k' = k + 1
  /\ pc' = IF k < Len(tool_calls) THEN "append"
           ELSE IF WhileTrue(requests) THEN "request" ELSE "finish"
  /\ UNCHANGED <<flavor, sent, sqlmap, cli, files, webtree, roundStart, tasks, hstate, completed, results,
                 requests, ncalls, result, err>>

\* `break`, progress.update(task_id, completed=100), `return msg.content or ""`
Return ==
  /\ pc = "finish"
  /\ result' = ReturnValue(messages[Len(messages)])
  /\ pc' = "done"
  /\ notes' = Append(notes, CompletedNote)
  /\ UNCHANGED <<flavor, sent, sqlmap, cli, files, webtree, messages, k, roundStart, tasks, hstate, completed,
                 results, requests, ncalls, err>>

\* asyncio.run(...) in main: once the main coroutine has ended with the
\* exception, the loop cancels every task still pending and closes
Teardown ==
  /\ pc = "raised"
  /\ pc' = "closed"
  /\ hstate' = [i \in 1..Len(hstate) |->
                  IF InFlight(hstate[i]) THEN "cancelled" ELSE hstate[i]]
  /\ UNCHANGED <<flavor, sent, notes, sqlmap, cli, files, webtree, messages, k, roundStart, tasks, completed, results,
                 requests, ncalls, result, err>>

\* a call of the progress observer raises: progress.update in the start loop
\* (after json.loads of the same iteration), progress.update in the append
\* loop (before the append of the same iteration), or the final update
ObserverRaise ==
  /\ \/ pc = "start" /\ k <= Len(tool_calls)
          /\ JsonLoads(tool_calls[k].arguments) # DecodeError
     \/ pc = "append" /\ k <= Len(tool_calls)
     \/ pc = "finish"
  /\ Raise("ObserverError")
  /\ UNCHANGED <<flavor, sent, notes, sqlmap, cli, files, webtree, messages, k, roundStart, tasks, hstate, completed,
                 results, requests, ncalls, result>>

\* the call website_full_analysis(...): with the three arguments of its
\* signature the body starts; main.py passes a fourth (max_links) and the
\* call raises TypeError
SiteCall ==
  /\ pc = "site_call"
  /\ \E nargs \in {SiteParams, SiteParams + 1} :
       IF nargs > SiteParams
         THEN Raise("TypeError") /\ UNCHANGED webtree
         ELSE /\ pc' = "site_check"
              /\ webtree' = [webtree EXCEPT !.entered = TRUE]
              /\ UNCHANGED err
  /\ UNCHANGED <<flavor, sent, notes, sqlmap, cli, files, messages, k, roundStart, tasks,
                 hstate, completed, results, requests, ncalls, result>>

\* `if not await webtree.check():` -- check() catches every Exception and
\* answers False
SiteCheck ==
  /\ pc = "site_check"
  /\ \E available \in BOOLEAN :
       IF available
         THEN /\ pc' = "site_scan"
              /\ webtree' = [webtree EXCEPT !.checked = "True"]
              /\ notes' = Append(notes, SiteNote("scanning"))
              /\ UNCHANGED result
         ELSE /\ pc' = "site_done"
              /\ webtree' = [webtree EXCEPT !.checked = "False"]
              /\ notes' = Append(notes, SiteNote("check failed"))
              /\ result' = SiteUnavailable
  /\ UNCHANGED <<flavor, sent, sqlmap, cli, files, messages, k, roundStart, tasks, hstate,
                 completed, results, requests, ncalls, err>>

\* an except clause that lets the timeout error through
SiteCatchesButTimeout(kind) == kind # "timeout"

\* `except Exception as e:` of website_full_analysis: WebTreeExecutionError
\* is an Exception, whatever made scan() raise it
SiteCatches(kind) == TRUE

\* scan() raises WebTreeExecutionError (wt is the WebTree state it leaves);
\* website_full_analysis answers with its 'scan failed' message
SiteScanRaises(kind, wt) ==
  /\ webtree' = [wt EXCEPT !.scan = kind]
  /\ IF SiteCatches(kind)
       THEN /\ result' = SiteFailed
            /\ notes' = Append(notes, SiteNote("error"))
            /\ pc' = "site_done"
            /\ UNCHANGED err
       ELSE /\ Raise("WebTreeExecutionError")
            /\ UNCHANGED <<result, notes>>

\* `result = await webtree.scan(...)` up to create_subprocess_exec: the
\* process is started, or starting it raises, which scan() re-raises as an
\* unexpected error
SiteScan ==
  /\ pc = "site_scan"
  /\ \/ /\ webtree' = [webtree EXCEPT !.proc = "running", !.started = @ + 1]
        /\ pc' = "site_wait"
        /\ UNCHANGED <<result, notes, err>>
     \/ SiteScanRaises("unexpected", webtree)
  /\ UNCHANGED <<flavor, sent, sqlmap, cli, files, messages, k, roundStart, tasks, hstate,
                 completed, results, requests, ncalls>>

\* raising at the timeout without touching the process
TimeoutRaisesOnly == FALSE

\* `except asyncio.TimeoutError: process.kill()`
TimeoutKills == TRUE

\* `await asyncio.wait_for(process.communicate(), timeout=timeout)`: the
\* process exits in time (with output, with blank output, or with a
\* non-zero return code), or the timeout comes first
SiteWait ==
  /\ pc = "site_wait"
  /\ \/ \E outcome \in {"output", "empty"} :
          /\ webtree' = [webtree EXCEPT !.proc = "exited", !.scan = outcome]
          /\ result' = IF outcome = "output" THEN SiteSuccess ELSE SiteNoFindings
          /\ notes' = Append(notes, SiteNote(outcome))
          /\ pc' = "site_done"
          /\ UNCHANGED err
     \/ SiteScanRaises("nonzero", [webtree EXCEPT !.proc = "exited"])
     \/ IF TimeoutKills
          THEN /\ webtree' = [webtree EXCEPT !.proc = "killed", !.scan = "timeout"]
               /\ pc' = "site_kill"
               /\ UNCHANGED <<result, notes, err>>
          ELSE SiteScanRaises("timeout", webtree)
  /\ UNCHANGED <<flavor, sent, sqlmap, cli, files, messages, k, roundStart, tasks, hstate,
                 completed, results, requests, ncalls>>

\* `await process.wait()` after the kill returns, then
\* `raise WebTreeExecutionError(... timeout ...)`
SiteReaped ==
  /\ pc = "site_kill"
  /\ SiteScanRaises("timeout", [webtree EXCEPT !.proc = "reaped"])
  /\ UNCHANGED <<flavor, sent, sqlmap, cli, files, messages, k, roundStart, tasks, hstate,
                 completed, results, requests, ncalls>>

Next ==
  \/ Decide
  \/ CreateTask
  \/ Gather
  \/ StartHandler
  \/ \E i \in 1..Len(hstate) : FinishHandler(i)
  \/ \E i \in 1..Len(hstate) : FailHandler(i)
  \/ GatherReturn
  \/ GatherRaise
  \/ AppendResult
  \/ Return
  \/ Teardown
  \/ BackendError
  \/ MalformedResponse
  \/ SiteCall
  \/ SiteCheck
  \/ SiteScan
  \/ SiteWait
  \/ SiteReaped

\* function_call with the observer main.py builds (rich Progress)
Spec == Init /\ [][Next]_vars

NextObs == Next \/ ObserverRaise

\* function_call with an observer whose calls can raise
SpecObs == Init /\ [][NextObs]_vars

(* ----------------------------- main() ---------------------------------- *)
\* values of --max-links in this model (100 is the option's default)
MaxLinksValues == {1, 100, 500}

\* default of WebTree.scan's max_links parameter
WebTreeMaxLinks == 100

\* positional arguments main passes to website_full_analysis
MainSiteArgs == 4

\* the variables of the analyses and of the handlers
notMain == <<flavor, messages, pc, k, roundStart, tasks, hstate, completed,
             results, requests, ncalls, result, err, sent, notes, sqlmap,
             files, webtree>>

\* main(website, no_check, url, host, poc, max_links) as click calls it; ""
\* stands for an argument that was not given (None)
CliStart ==
  { [pc |-> "main", mode |-> "none", website |-> w, url |-> u, host |-> h, no_check |-> n,
     poc |-> p, max_links |-> m, analysis |-> "none", checked |-> 0,
     webtree |-> 0, result |-> "", err |-> "none"] :
      w \in {"", "https://a/"}, u \in {"", "http://a/?n=1"},
      h \in {"", "a.com"}, n \in BOOLEAN, p \in BOOLEAN,
      m \in MaxLinksValues }

\* main() alone: the analyses are represented by what they hand back
InitMain ==
  /\ flavor = "website_full_analysis"
  /\ messages = <<>>
  /\ pc = "main"
  /\ k = 0
  /\ roundStart = 0
  /\ tasks = <<>>
  /\ hstate = <<>>
  /\ completed = <<>>
  /\ results = <<>>
  /\ requests = 0
  /\ ncalls = 0
  /\ result = NoValue
  /\ err = "none"
  /\ sent = <<>>
  /\ notes = <<>>
  /\ sqlmap = SqlmapInit
  /\ files = FilesOff
  /\ webtree = WebTreeInit
  /\ cli \in CliStart

\* the analysis the target arguments select (lines 99-113): website first,
\* then --url, then --host
TargetAnalysis(c) ==
  IF c.website # "" THEN "website_full_analysis"
  ELSE IF c.url # "" THEN "url_injection_analysis"
  ELSE "generate_domain_analysis"

\* `if not website and not url and not host:` (line 52)
MainBranch ==
  /\ cli.pc = "main"
  /\ LET interactive == cli.website = "" /\ cli.url = "" /\ cli.host = ""
     IN  cli' = [cli EXCEPT !.mode = IF interactive THEN "interactive" ELSE "target",
                            !.pc = IF interactive THEN "confirm" ELSE "target"]
  /\ UNCHANGED notMain

\* interactive mode, lines 53-56: the user is asked whether to check the
\* tools, and checker() runs on a yes; no_check is not read
MainConfirm ==
  /\ cli.pc = "confirm"
  /\ \E yes \in BOOLEAN :
       cli' = [cli EXCEPT !.checked = IF yes THEN @ + 1 ELSE @,
                          !.pc = "select"]
  /\ UNCHANGED notMain

\* interactive mode, lines 57-91: the scan type and the target are asked for;
\* a cancelled prompt (None) matches no branch
MainSelect ==
  /\ cli.pc = "select"
  /\ \/ \E p \in BOOLEAN :
          cli' = [cli EXCEPT !.analysis = "website_full_analysis",
                             !.website = "https://a/", !.poc = p,
                             !.pc = "analyse"]
     \/ cli' = [cli EXCEPT !.analysis = "url_injection_analysis",
                           !.url = "http://a/?n=1", !.pc = "analyse"]
     \/ cli' = [cli EXCEPT !.analysis = "generate_domain_analysis",
                           !.host = "a.com", !.pc = "analyse"]
     \/ cli' = [cli EXCEPT !.pc = "print"]
  /\ UNCHANGED notMain

\* a target was given, lines 99-101, 104-106, 109-111
MainCheck ==
  /\ cli.pc = "target"
  /\ cli' = [cli EXCEPT !.analysis = TargetAnalysis(cli),
                        !.checked = IF cli.no_check THEN @ ELSE @ + 1,
                        !.pc = "analyse"]
  /\ UNCHANGED notMain

\* asyncio.run(<analysis>(...)), lines 74, 82, 90, 102, 107, 112: the
\* website scan is called with MainSiteArgs positional arguments
MainAnalyse ==
  /\ cli.pc = "analyse"
  /\ IF cli.analysis = "website_full_analysis"
       THEN IF MainSiteArgs > SiteParams
              THEN cli' = [cli EXCEPT !.err = "TypeError", !.pc = "raised"]
              ELSE \E text \in {"", "scan result"} :
                     cli' = [cli EXCEPT !.webtree = WebTreeMaxLinks,
                                        !.result = text, !.pc = "print"]
       ELSE \/ \E text \in {"", "answer"} :
                 cli' = [cli EXCEPT !.result = text, !.pc = "print"]
            \/ cli' = [cli EXCEPT !.err = "analysis error", !.pc = "raised"]
  /\ UNCHANGED notMain

\* `if result: print(result)` (lines 115-116)
MainPrint ==
  /\ cli.pc = "print"
  /\ cli' = [cli EXCEPT !.pc = "done"]
  /\ UNCHANGED notMain

NextMain ==
  \/ MainBranch
  \/ MainConfirm
  \/ MainSelect
  \/ MainCheck
  \/ MainAnalyse
  \/ MainPrint

\* one invocation of the command-line entry point
SpecMain == InitMain /\ [][NextMain]_vars

(* ------------------- scan_sql_injection and Sqlmap --------------------- *)
\* scan_sql_injection calls made in one session
MaxSqlCalls == 3

\* status requests of one scan that find the task still running
MaxPolls == 2

\* sqlmap_output.json before the session: absent, or a list (0 stands for
\* the findings of an earlier session)
FilesBefore ==
  { [exists |-> FALSE, list |-> <<>>],
    [exists |-> TRUE, list |-> <<>>],
    [exists |-> TRUE, list |-> <<0>>] }

\* everything but the sqlmap state
loopVars == <<flavor, messages, pc, k, roundStart, tasks, hstate, completed,
              results, requests, ncalls, result, err, sent, notes>>

\* the session seen from the scan_sql_injection handler: an injection
\* analysis whose rounds call the handler
InitSql ==
  /\ flavor = "url_injection_analysis"
  /\ messages = <<UserMessage(flavor)>>
  /\ pc = "handlers"
  /\ k = 0
  /\ roundStart = 0
  /\ tasks = <<>>
  /\ hstate = <<>>
  /\ completed = <<>>
  /\ results = <<>>
  /\ requests = 1
  /\ ncalls = 0
  /\ result = NoValue
  /\ err = "none"
  /\ sent = <<>>
  /\ notes = <<AddTaskNote>>
  /\ \E f \in FilesBefore :
       sqlmap = [SqlmapInit EXCEPT !.file = f, !.file0 = f.list]
  /\ cli = CliOff
  /\ files = FilesOff
  /\ webtree = WebTreeInit

\* starting the service on every call
NeedsStartAlways(proc) == TRUE

\* `not hasattr(sqlmap_scanner, 'process') or sqlmap_scanner.process is None`
NeedsStart(proc) == proc.state \in {"noattr", "None"}

\* deleting the task only when the scan got to its return statement
IssuesDeleteOnReturn(task_id, path) == task_id # 0 /\ path = "return"

\* `finally: if task_id:` - the delete request is sent on every way out of
\* the try block
IssuesDelete(task_id, path) == task_id # 0

\* a limit on the time a scan may take
ScanDeadlineAfter(polls) == polls >= 1

\* scan_sql_injection awaits sqlmap_scanner.scan() directly, and scan() polls
\* in `while True`: nothing ends the polling from outside
ScanDeadline(polls) == FALSE

\* the file rewritten with the new findings only
WriteBackNew(existing, current) == <<current>>

\* existing_results.append(current_scan_results), then json.dump of the list
WriteBack(existing, current) == Append(existing, current)

\* existing_results as read from sqlmap_output.json ([] when there is no file)
ReadList(file) == IF file.exists THEN file.list ELSE <<>>

\* scan() leaves its try block by `return scan_results` or through
\* `except Exception: return []`; the finally block then sends the delete
\* request, or scan() returns at once
ScanExit(r, s, rv, path) ==
  LET o == IF path = "return" THEN "returned" ELSE "caught"
  IN  IF IssuesDelete(r.task[s], path)
        THEN [r EXCEPT !.hpc[s] = "deleting", !.retval[s] = rv,
                       !.outcome[s] = o,
                       !.deleted = @ \cup {r.task[s]}, !.ndeletes = @ + 1]
        ELSE [r EXCEPT !.hpc[s] = "idle", !.retval[s] = rv, !.outcome[s] = o]

\* scan_sql_injection is called: gather runs the first step of each coroutine
\* of the round, in request order, before any of them is resumed. The step
\* ends inside start() (self.process = None, then awaiting
\* create_subprocess_exec) when the service has to be started, else inside
\* scan() awaiting the /task/new request
SqlCall(s) ==
  /\ sqlmap.phase = "start"
  /\ s \notin sqlmap.inround
  /\ \A o \in Slots : o < s => o \in sqlmap.inround
  /\ sqlmap.calls < MaxSqlCalls
  /\ sqlmap' =
       [sqlmap EXCEPT
          !.calls = @ + 1,
          !.inround = @ \cup {s},
          !.overlap = @ \/ sqlmap.inround # {},
          !.process = IF NeedsStart(sqlmap.process)
                        THEN [state |-> "None"] ELSE @,
          !.hpc[s] = IF NeedsStart(sqlmap.process) THEN "spawning" ELSE "new",
          !.task[s] = 0, !.polls[s] = 0, !.exitpoll[s] = "none",
          !.retval[s] = "none", !.outcome[s] = "none",
          !.calledAt[s] = requests]
  /\ UNCHANGED <<loopVars, cli, files, webtree>>

\* every coroutine of the round has taken its first step: the event loop
\* goes on to resume them as their awaits complete
SqlRun ==
  /\ sqlmap.phase = "start"
  /\ sqlmap.inround # {}
  /\ sqlmap' = [sqlmap EXCEPT !.phase = "run"]
  /\ UNCHANGED <<loopVars, cli, files, webtree>>

\* create_subprocess_exec returns: self.process is the new process, start()
\* returns and the handler awaits asyncio.sleep(5)
SqlSpawned(s) ==
  /\ sqlmap.phase = "run"
  /\ sqlmap.hpc[s] = "spawning"
  /\ sqlmap' =
       [sqlmap EXCEPT
          !.spawned = @ + 1,
          !.process = [state |-> "handle", pid |-> sqlmap.spawned + 1],
          !.hpc[s] = "sleeping"]
  /\ UNCHANGED <<loopVars, cli, files, webtree>>

\* create_subprocess_exec raises (start() is outside the handler's try): the
\* exception leaves scan_sql_injection
SqlSpawnFails(s) ==
  /\ sqlmap.phase = "run"
  /\ sqlmap.hpc[s] = "spawning"
  /\ sqlmap' = [sqlmap EXCEPT !.erred = TRUE, !.hpc[s] = "idle",
                              !.outcome[s] = "raised"]
  /\ UNCHANGED <<loopVars, cli, files, webtree>>

\* the sleep ends and scan() sends its /task/new request
SqlSlept(s) ==
  /\ sqlmap.phase = "run"
  /\ sqlmap.hpc[s] = "sleeping"
  /\ sqlmap' = [sqlmap EXCEPT !.hpc[s] = "new"]
  /\ UNCHANGED <<loopVars, cli, files, webtree>>

\* step 1 of scan(): the /task/new request answers with a task id and the
\* /scan/<id>/start request is sent, or the request fails (or brings no id)
SqlNewTask(s) ==
  /\ sqlmap.phase = "run"
  /\ sqlmap.hpc[s] = "new"
  /\ \/ sqlmap' = [sqlmap EXCEPT !.ntasks = @ + 1,
                                 !.task[s] = sqlmap.ntasks + 1,
                                 !.hpc[s] = "start"]
     \/ sqlmap' = ScanExit(sqlmap, s, "empty", "except")
  /\ UNCHANGED <<loopVars, cli, files, webtree>>

\* step 2 of scan(): the scan is started and the polling begins, or the
\* start request fails (or answers success: false)
SqlStartScan(s) ==
  /\ sqlmap.phase = "run"
  /\ sqlmap.hpc[s] = "start"
  /\ \/ sqlmap' = [sqlmap EXCEPT !.hpc[s] = "polling"]
     \/ sqlmap' = ScanExit(sqlmap, s, "empty", "except")
  /\ UNCHANGED <<loopVars, cli, files, webtree>>

\* step 3 of scan(): one turn of `while True`: sleep 5, ask for the status
SqlPoll(s) ==
  /\ sqlmap.phase = "run"
  /\ sqlmap.hpc[s] = "polling"
  /\ IF ScanDeadline(sqlmap.polls[s])
       THEN sqlmap' = ScanExit([sqlmap EXCEPT !.exitpoll[s] = "deadline"],
                               s, "empty", "except")
       ELSE \/ /\ sqlmap.polls[s] < MaxPolls
               /\ sqlmap' = [sqlmap EXCEPT !.polls[s] = @ + 1]
            \/ sqlmap' = [sqlmap EXCEPT !.exitpoll[s] = "terminated",
                                        !.hpc[s] = "data"]
            \/ sqlmap' = ScanExit([sqlmap EXCEPT !.exitpoll[s] = "failed"],
                                  s, "empty", "except")
  /\ UNCHANGED <<loopVars, cli, files, webtree>>

\* step 4 of scan(): the data request answers; with no await in between the
\* file is read, the findings (here the task id stands for them) are
\* appended and the file is rewritten; or the data request fails
SqlData(s) ==
  /\ sqlmap.phase = "run"
  /\ sqlmap.hpc[s] = "data"
  /\ \/ sqlmap' =
          ScanExit([sqlmap EXCEPT
                      !.file = [exists |-> TRUE,
                                list |-> WriteBack(ReadList(sqlmap.file),
                                                   sqlmap.task[s])],
                      !.found = Append(@, sqlmap.task[s])],
                   s, "findings", "return")
     \/ sqlmap' = ScanExit(sqlmap, s, "empty", "return")
     \/ sqlmap' = ScanExit(sqlmap, s, "empty", "except")
  /\ UNCHANGED <<loopVars, cli, files, webtree>>

\* the delete request of the finally block answers: scan() returns and the
\* handler returns its value; or the request fails, the exception leaves
\* scan() and the handler's except calls stop(), which returns at once when
\* process is None and otherwise terminates the process and waits for it
SqlDeleted(s) ==
  /\ sqlmap.phase = "run"
  /\ sqlmap.hpc[s] = "deleting"
  /\ \/ sqlmap' = [sqlmap EXCEPT !.hpc[s] = "idle"]
     \/ sqlmap' =
          [sqlmap EXCEPT
             !.erred = TRUE,
             !.outcome[s] = "stopped",
             !.retval[s] = "empty",
             !.hpc[s] = IF sqlmap.process.state = "handle"
                          THEN "stopping" ELSE "idle"]
  /\ UNCHANGED <<loopVars, cli, files, webtree>>

\* stop() ends: `finally: self.process = None`; the handler returns []
SqlStopped(s) ==
  /\ sqlmap.phase = "run"
  /\ sqlmap.hpc[s] = "stopping"
  /\ sqlmap' = [sqlmap EXCEPT !.process = [state |-> "None"], !.hpc[s] = "idle"]
  /\ UNCHANGED <<loopVars, cli, files, webtree>>

\* every handler of the round has returned or raised: gather is over and
\* function_call goes on to its next backend request
SqlRoundDone ==
  /\ sqlmap.phase = "run"
  /\ \A s \in Slots : sqlmap.hpc[s] = "idle"
  /\ sqlmap' = [sqlmap EXCEPT !.phase = "start", !.inround = {}]
  /\ requests' = requests + 1
  /\ UNCHANGED <<flavor, messages, pc, k, roundStart, tasks, hstate, completed,
                 results, ncalls, result, err, sent, notes, cli, files,
                 webtree>>

NextSql ==
  \/ \E s \in Slots : SqlCall(s)
  \/ SqlRun
  \/ \E s \in Slots : SqlSpawned(s)
  \/ \E s \in Slots : SqlSpawnFails(s)
  \/ \E s \in Slots : SqlSlept(s)
  \/ \E s \in Slots : SqlNewTask(s)
  \/ \E s \in Slots : SqlStartScan(s)
  \/ \E s \in Slots : SqlPoll(s)
  \/ \E s \in Slots : SqlData(s)
  \/ \E s \in Slots : SqlDeleted(s)
  \/ \E s \in Slots : SqlStopped(s)
  \/ SqlRoundDone

\* the scan_sql_injection calls of a session and the service they share
SpecSqlmap == InitSql /\ [][NextSql]_vars

(* -------------------- handlers and their output files ------------------ *)
\* the handlers that read their tool's result from a per-target file
FileHandlers == {"scan_subdomain_enumeration", "scan_directory_fuzzing"}

\* host names the rounds ask about, as sequences of characters
Hosts == { <<"a", "-", "b">>, <<"a", ".", "b">>, <<"c">> }

\* str.replace(old, new)
Replace(str, old, new) ==
  [i \in DOMAIN str |-> IF str[i] = old THEN new ELSE str[i]]

\* get_output_dir: the directory under test/ named after the host with '.'
\* and '-' replaced by '_'
GetOutputDir(host) == Replace(Replace(host, ".", "_"), "-", "_")

\* the file a handler has its tool write and then reads
FilePath(name, host) ==
  [dir |-> GetOutputDir(host),
   file |-> IF name = "scan_subdomain_enumeration"
              THEN "oneforall_output.json" ELSE "ffuf_output.json"]

FilePaths == { FilePath(n, h) : n \in FileHandlers, h \in Hosts }

\* written by nobody
NoData == [by |-> 0]

\* two handlers of one round about to be gathered; no output file exists
FilesStart ==
  { [pc |-> "on", name |-> [s \in Slots |-> IF s = 1 THEN n1 ELSE n2],
     host |-> [s \in Slots |-> IF s = 1 THEN h1 ELSE h2],
     hpc |-> [s \in Slots |-> "created"],
     wrote |-> [s \in Slots |-> FALSE],
     returncode |-> [s \in Slots |-> 0],
     result |-> [s \in Slots |-> NoData],
     disk |-> [f \in FilePaths |-> NoData]] :
      n1 \in FileHandlers, n2 \in FileHandlers, h1 \in Hosts, h2 \in Hosts }

\* everything but the output files
notFiles == <<flavor, messages, pc, k, roundStart, tasks, hstate, completed,
              results, requests, ncalls, result, err, sent, notes, sqlmap,
              cli, webtree>>

\* a round of a domain analysis seen from two file-reading handlers
InitFiles ==
  /\ flavor = "generate_domain_analysis"
  /\ messages = <<UserMessage(flavor)>>
  /\ pc = "handlers"
  /\ k = 0
  /\ roundStart = 0
  /\ tasks = <<>>
  /\ hstate = <<>>
  /\ completed = <<>>
  /\ results = <<>>
  /\ requests = 1
  /\ ncalls = 0
  /\ result = NoValue
  /\ err = "none"
  /\ sent = <<>>
  /\ notes = <<AddTaskNote>>
  /\ sqlmap = SqlmapInit
  /\ cli = CliOff
  /\ webtree = WebTreeInit
  /\ files \in FilesStart

\* first step of the handler, in request order: get_output_dir, then
\* create_subprocess_exec with the file path on the command line
FileCall(s) ==
  /\ files.hpc[s] = "created"
  /\ \A o \in Slots : o < s => files.hpc[o] # "created"
  /\ files' = [files EXCEPT !.hpc[s] = "running"]
  /\ UNCHANGED notFiles

\* the tool's process writes its result file
ToolWrites(s) ==
  /\ \A o \in Slots : files.hpc[o] # "created"
  /\ files.hpc[s] = "running"
  /\ ~files.wrote[s]
  /\ files' = [files EXCEPT
                 !.wrote[s] = TRUE,
                 !.disk[FilePath(files.name[s], files.host[s])] = [by |-> s]]
  /\ UNCHANGED notFiles

\* the tool's process exits, with return code 0 or not
ToolExits(s) ==
  /\ \A o \in Slots : files.hpc[o] # "created"
  /\ files.hpc[s] = "running"
  /\ \E rc \in {0, 1} :
       files' = [files EXCEPT !.hpc[s] = "exited", !.returncode[s] = rc]
  /\ UNCHANGED notFiles

\* communicate() returns to the handler: it raises on a non-zero return
\* code, else opens the file (raising when there is none) and returns what
\* json.load reads from it
HandlerReads(s) ==
  /\ files.hpc[s] = "exited"
  /\ LET data == files.disk[FilePath(files.name[s], files.host[s])]
     IN  IF files.returncode[s] # 0 \/ data = NoData
           THEN files' = [files EXCEPT !.hpc[s] = "raised"]
           ELSE files' = [files EXCEPT !.hpc[s] = "returned", !.result[s] = data]
  /\ UNCHANGED notFiles

NextFiles ==
  \/ \E s \in Slots : FileCall(s)
  \/ \E s \in Slots : ToolWrites(s)
  \/ \E s \in Slots : ToolExits(s)
  \/ \E s \in Slots : HandlerReads(s)

\* two concurrent handlers of one round and the files of their tools
SpecFiles == InitFiles /\ [][NextFiles]_vars

(* --------------------- the Sqlmap class on its own ---------------------- *)
\* calls of start, stop and restart made on one Sqlmap instance
MaxApiOps == 3

ApiOps == {"start", "stop", "restart"}

\* everything but the Sqlmap instance
notApi == <<flavor, messages, pc, k, roundStart, tasks, hstate, completed,
            results, requests, ncalls, result, err, sent, notes, cli, files,
            webtree>>

\* Sqlmap(): __init__ sets sqlmap_api_path and nothing else, so the instance
\* has no attribute `process` ("unset") until start() runs
ApiInit ==
  [process |-> "unset", running |-> FALSE, leaked |-> 0, pc |-> "idle",
   then |-> "idle", op |-> "none", ops |-> 0, last |-> "none",
   how |-> "none", err |-> "none", before |-> "unset"]

\* a fresh Sqlmap instance and a caller that awaits one method at a time
InitApi ==
  /\ flavor = "generate_web_analysis"
  /\ messages = <<>>
  /\ pc = "off"
  /\ k = 0
  /\ roundStart = 0
  /\ tasks = <<>>
  /\ hstate = <<>>
  /\ completed = <<>>
  /\ results = <<>>
  /\ requests = 0
  /\ ncalls = 0
  /\ result = NoValue
  /\ err = "none"
  /\ sent = <<>>
  /\ notes = <<>>
  /\ cli = CliOff
  /\ files = FilesOff
  /\ webtree = WebTreeInit
  /\ sqlmap = ApiInit

\* the caller awaits start(), stop() or restart(); restart() is stop() and
\* then start()
ApiCall(op) ==
  /\ sqlmap.pc = "idle"
  /\ sqlmap.ops < MaxApiOps
  /\ sqlmap' = [sqlmap EXCEPT !.pc = IF op = "start" THEN "start" ELSE "stop",
                              !.then = IF op = "restart" THEN "start" ELSE "idle",
                              !.op = op, !.ops = @ + 1, !.err = "none",
                              !.how = "none", !.last = "none",
                              !.before = sqlmap.process]
  /\ UNCHANGED notApi

\* stop(): `if self.process is None` reads the attribute before the try, so
\* an instance without it raises AttributeError; None returns at once; a
\* handle whose process has ended is dropped; a running one is terminated,
\* gracefully, by kill after the 5 second wait, or with an error that the
\* except clause prints; `finally` sets process to None
ApiStop ==
  /\ sqlmap.pc = "stop"
  /\ \/ /\ sqlmap.process = "unset"
        /\ sqlmap' = [sqlmap EXCEPT !.pc = "idle", !.then = "idle",
                                    !.last = "stop", !.how = "raised",
                                    !.err = "AttributeError"]
     \/ /\ sqlmap.process = "None"
        /\ sqlmap' = [sqlmap EXCEPT !.pc = sqlmap.then, !.then = "idle",
                                    !.last = "stop", !.how = "not running"]
     \/ /\ sqlmap.process = "handle"
        /\ ~sqlmap.running
        /\ sqlmap' = [sqlmap EXCEPT !.pc = sqlmap.then, !.then = "idle",
                                    !.last = "stop", !.how = "exited",
                                    !.process = "None"]
     \/ /\ sqlmap.process = "handle"
        /\ sqlmap.running
        /\ \E how \in {"graceful", "forced", "error"} :
             sqlmap' = [sqlmap EXCEPT !.pc = sqlmap.then, !.then = "idle",
                                      !.last = "stop", !.how = how,
                                      !.process = "None",
                                      !.running = (how = "error"),
                                      !.leaked = IF how = "error" THEN @ + 1 ELSE @]
  /\ UNCHANGED notApi

\* start(): self.process = None, then the subprocess is created and its
\* handle stored, or creating it raises and process stays None; a handle
\* that was still stored is overwritten
ApiStart ==
  /\ sqlmap.pc = "start"
  /\ \E spawned \in BOOLEAN :
       sqlmap' = [sqlmap EXCEPT !.pc = "idle", !.last = "start",
                                !.process = IF spawned THEN "handle" ELSE "None",
                                !.running = spawned,
                                !.leaked = IF sqlmap.process = "handle" /\ sqlmap.running
                                             THEN @ + 1 ELSE @,
                                !.err = IF spawned THEN "none" ELSE "OSError"]
  /\ UNCHANGED notApi

\* the sqlmapapi process ends by itself
ApiExits ==
  /\ sqlmap.pc = "idle"
  /\ sqlmap.process = "handle"
  /\ sqlmap.running
  /\ sqlmap' = [sqlmap EXCEPT !.running = FALSE]
  /\ UNCHANGED notApi

NextApi ==
  \/ \E op \in ApiOps : ApiCall(op)
  \/ ApiStop
  \/ ApiStart
  \/ ApiExits

\* one Sqlmap instance driven through its start/stop/restart methods
SpecSqlmapApi == InitApi /\ [][NextApi]_vars

(* ======================= properties of the loop ======================== *)
\* positions of the assistant messages that ask for tools (one per round)
ToolRounds ==
  { p \in 1..Len(messages) :
      messages[p].role = "assistant" /\ HasToolCalls(messages[p]) }

\* number of tool-role messages that directly follow position p
ToolRun(p) ==
  CHOOSE n \in 0..(Len(messages) - p) :
    /\ \A j \in 1..n : messages[p + j].role = "tool"
    /\ p + n + 1 <= Len(messages) => messages[p + n + 1].role # "tool"

\* the round whose assistant message is at p has run all of its append loop
RoundCompleted(p) ==
  \/ p < roundStart
  \/ p = roundStart /\ pc \in {"request", "finish", "done"}

\* the coroutine function_call creates for a request
TaskOf(tc) == [name |-> tc.name, kwargs |-> JsonLoads(tc.arguments)]

\* C1: in every completed round the number of tool-role messages appended
\* equals the number of requests of the round's assistant message, and the
\* tool_call_ids of those messages and the ids of the requests are in
\* one-to-one correspondence
C1_Bijection ==
  \A p \in ToolRounds :
    RoundCompleted(p) =>
      LET calls == messages[p].tool_calls
          n == Len(calls)
      IN  /\ ToolRun(p) = n
          /\ \A c \in 1..n :
               Cardinality({ j \in 1..n : p + j <= Len(messages)
                               /\ messages[p + j].role = "tool"
                               /\ messages[p + j].tool_call_id = calls[c].id }) = 1
          /\ \A j \in 1..ToolRun(p) :
               Cardinality({ c \in 1..n :
                               calls[c].id = messages[p + j].tool_call_id }) = 1

\* a round of two requests has completed, one of them with a None result
C1_Witness ==
  /\ pc = "request"
  /\ roundStart > 0
  /\ Len(tool_calls) = 2
  /\ Len(messages) = roundStart + 2
  /\ \E i \in 1..2 : results[i] = PyNone

\* C2: in every completed round the j-th tool-role message answers the j-th
\* request of the assistant message, whatever order the handlers completed in
C2_RequestOrder ==
  \A p \in ToolRounds :
    RoundCompleted(p) =>
      \A j \in 1..Len(messages[p].tool_calls) :
        /\ p + j <= Len(messages)
        /\ messages[p + j].role = "tool"
        /\ messages[p + j].tool_call_id = messages[p].tool_calls[j].id

\* three requests completed in the order 2nd, 3rd, 1st and were answered
C2_Witness ==
  /\ pc = "request"
  /\ roundStart > 0
  /\ completed = <<2, 3, 1>>
  /\ Len(messages) = roundStart + 3

\* C3: the content of the tool-role message that carries tool_call_id X is
\* the serialised return value of the handler invoked with the name and the
\* arguments of the request with id X, not the value of a sibling request
C3_Correlation ==
  \A p \in ToolRounds :
    RoundCompleted(p) =>
      \A j \in 1..ToolRun(p) :
        \A c \in 1..Len(messages[p].tool_calls) :
          messages[p].tool_calls[c].id = messages[p + j].tool_call_id =>
            messages[p + j].content =
              Dumps(HandlerReturn(TaskOf(messages[p].tool_calls[c])))

\* two requests for the same capability with different arguments completed
\* in the reverse of their request order and were answered
C3_Witness ==
  /\ pc = "request"
  /\ roundStart > 0
  /\ Len(tasks) = 2
  /\ tasks[1].name = tasks[2].name
  /\ tasks[1].kwargs # tasks[2].kwargs
  /\ completed = <<2, 1>>
  /\ Len(messages) = roundStart + 2

\* C4: whenever function_call is about to issue a backend request after a
\* round, every handler of that round has completed (none is in flight) and
\* exactly one tool-role message per request of the round has been appended
C4_Sequential ==
  pc = "request" /\ roundStart > 0 =>
    /\ Len(hstate) = Len(tool_calls)
    /\ \A i \in 1..Len(hstate) : hstate[i] = "done"
    /\ Len(messages) = roundStart + Len(tool_calls)
    /\ \A j \in 1..Len(tool_calls) : messages[roundStart + j].role = "tool"

\* a second round has completed and a third backend request is due
C4_Witness ==
  /\ pc = "request"
  /\ requests = 2
  /\ Len(tool_calls) >= 1
  /\ Cardinality(ToolRounds) = 2

\* C5: once a decision without tool calls (absent or empty) is appended, it
\* is the last message, no handler runs, no further backend request is issued
\* and the value returned is its content, or the empty string if absent; a
\* first decision without tool calls ends the loop after one round
C5_FinalDecision ==
  pc \in {"finish", "done"} =>
    LET m == messages[Len(messages)]
    IN  /\ m.role = "assistant"
        /\ ~HasToolCalls(m)
        /\ requests = Cardinality({ p \in 1..Len(messages) :
                                      messages[p].role = "assistant" })
        /\ \A i \in 1..Len(hstate) : hstate[i] = "done"
        /\ roundStart = 0 => hstate = <<>> /\ requests = 1 /\ Len(messages) = 2
        /\ pc = "done" =>
             result = IF m.content = PyNone THEN Str("") ELSE m.content

\* the first decision had no tool calls and no content; function_call returned
C5_Witness ==
  /\ pc = "done"
  /\ Len(messages) = 2
  /\ messages[2].content = PyNone
  /\ result = Str("")

\* C6: a request that names a capability outside the subset exposed for the
\* running flavor never has its handler executed, and no tool-role message is
\* appended for its round
C6_UnknownCapability ==
  \A i \in 1..Len(tool_calls) :
    tool_calls[i].name \notin ExposedTools(flavor) =>
      /\ i <= Len(hstate) => hstate[i] \notin {"running", "done", "failed"}
      /\ Len(messages) = roundStart

\* position of the first request of the current round whose payload
\* does not decode (0 if all decode)
FirstMalformed ==
  LET bad == { i \in 1..Len(tool_calls) :
                 JsonLoads(tool_calls[i].arguments) = DecodeError }
  IN  IF bad = {} THEN 0
      ELSE CHOOSE i \in bad : \A j \in bad : i <= j

\* C7: if a request of the round has an undecodable payload, no handler of
\* the round executes (not even those of the requests before it), no
\* tool-role message is appended, and the loop over the requests ends at
\* that request with the decode error
C7_DecodeBeforeHandlers ==
  FirstMalformed # 0 =>
    /\ pc \in {"start", "raised", "closed"}
    /\ k <= FirstMalformed
    /\ \A i \in 1..Len(hstate) : hstate[i] = "created"
    /\ Len(messages) = roundStart
    /\ pc # "start" /\ k = FirstMalformed => err = "JSONDecodeError"

\* the second request was malformed: the decode error was raised after the
\* coroutine of the first request had been created
C7_Witness ==
  /\ FirstMalformed = 2
  /\ pc = "raised"
  /\ err = "JSONDecodeError"
  /\ Len(hstate) = 1

\* C8: when a handler of the round has raised, function_call never reaches
\* its append loop: no tool-role message of the round is appended, also for
\* siblings that returned, and the exception that leaves it is the fault
C8_FaultPropagates ==
  (\E i \in 1..Len(hstate) : hstate[i] = "failed") =>
    /\ pc \in {"gather", "raised", "closed"}
    /\ Len(messages) = roundStart
    /\ pc # "gather" => err = "CapabilityFault"

\* the fault left function_call although a sibling had returned
C8_Witness ==
  /\ pc = "raised"
  /\ err = "CapabilityFault"
  /\ \E i \in 1..Len(hstate) : hstate[i] = "failed"
  /\ \E i \in 1..Len(hstate) : hstate[i] = "done"

\* C9: after a handler fault has left function_call, the only thing that
\* happens to a sibling handler is its cancellation: none takes a step
C9_SiblingsAborted ==
  [][ pc = "raised" /\ err = "CapabilityFault" =>
        \A i \in 1..Len(hstate) :
          hstate'[i] # hstate[i] => hstate'[i] = "cancelled" ]_vars

\* C10: once function_call has exited, every assistant message with tool
\* calls is followed by tool-role messages for all of its requests or by none
C10_AllOrNothing ==
  pc \in {"done", "raised", "closed"} =>
    \A p \in ToolRounds :
      ToolRun(p) \in {0, Len(messages[p].tool_calls)}

\* C11: every step leaves the messages already in the history in place and
\* unchanged; the history only grows at its end
C11_AppendOnly ==
  [][ /\ Len(messages') >= Len(messages)
      /\ SubSeq(messages', 1, Len(messages)) = messages ]_vars

\* the history holds two rounds and the second round's results are being added
C11_Witness ==
  /\ pc = "append"
  /\ k = 2
  /\ Cardinality(ToolRounds) = 2
  /\ Len(messages) >= 5

\* C12: a raising progress call never ends function_call: no exit of the
\* loop carries the observer's exception
C12_ObserverContained == err # "ObserverError"

\* number of assistant messages in the history
Decisions ==
  Cardinality({ p \in 1..Len(messages) : messages[p].role = "assistant" })

\* C13: one backend request per round (the requests issued are the decisions
\* received, plus the one that failed); after a failed request the exception
\* has left function_call and no further request is issued
C13_OneRequestNoRetry ==
  /\ err \notin {"BackendError", "IndexError", "AttributeError"} =>
       requests = Decisions
  /\ err = "BackendError" =>
       /\ pc \in {"raised", "closed"}
       /\ requests = Decisions + 1
       /\ Len(sent) = requests

\* the request of the second round failed
C13_Witness ==
  /\ err = "BackendError"
  /\ pc = "raised"
  /\ requests = 2
  /\ Len(messages) >= 3

\* C14: when the response lacks the decision, function_call raises with the
\* history as it was before the request and no handler run
C14_MalformedLeavesHistory ==
  [][ err = "none" /\ err' \in {"IndexError", "AttributeError"} =>
        /\ pc' = "raised"
        /\ messages' = messages
        /\ hstate' = hstate ]_vars

\* C15: function_call returns only on a decision without tool calls, and
\* after every completed tool round, whatever their number, it is back at
\* the backend request: no round count makes it return
C15_NoRoundCap ==
  /\ pc = "done" =>
       /\ messages[Len(messages)].role = "assistant"
       /\ ~HasToolCalls(messages[Len(messages)])
  /\ err = "none" /\ roundStart > 0
       /\ Len(messages) = roundStart + Len(tool_calls) => pc = "request"

\* the backend asked for tools in every round the bound allows and the loop
\* is about to ask it again
C15_Witness ==
  /\ pc = "request"
  /\ requests = MaxRounds
  /\ Cardinality(ToolRounds) = MaxRounds
  /\ messages[Len(messages)].role = "tool"

\* C16: every backend request of a session carries the same tools: the three
\* injection capabilities under url_injection_analysis, the two domain
\* capabilities under generate_domain_analysis
C16_FixedSubset ==
  /\ flavor \in Flavors => Len(sent) = requests
  /\ \A r \in 1..Len(sent) :
       /\ flavor = "url_injection_analysis" =>
            sent[r] = {"scan_sql_injection", "scan_template_injection",
                       "fetch_url_content"}
       /\ flavor = "generate_domain_analysis" =>
            sent[r] = {"scan_subdomain_enumeration", "scan_port_scanning"}
       /\ sent[r] \subseteq function_map

\* a domain analysis issued its third backend request
C16_Witness ==
  /\ flavor = "generate_domain_analysis"
  /\ Len(sent) = 3
  /\ Cardinality(ToolRounds) >= 2

C18_NoDeferredStart ==
  \A i, j \in 1..Len(hstate) :
    ~(hstate[i] = "scheduled" /\ hstate[j] \in {"done", "failed"})

\* C19: as long as no two scan_sql_injection calls have overlapped and no
\* call has raised, at most one service process has been started, and once
\* the first call is past its start exactly one has: every call is using it
C19_StartedOnce ==
  ~sqlmap.overlap /\ ~sqlmap.erred =>
    /\ sqlmap.spawned <= 1
    /\ sqlmap.calls >= 1 /\ (\A s \in Slots : sqlmap.hpc[s] # "spawning") =>
         /\ sqlmap.spawned = 1
         /\ sqlmap.process = [state |-> "handle", pid |-> 1]

\* three calls, one after the other, have returned and one process was started
C19_Witness ==
  /\ ~sqlmap.overlap
  /\ ~sqlmap.erred
  /\ sqlmap.calls = 3
  /\ sqlmap.spawned = 1
  /\ \A s \in Slots : sqlmap.hpc[s] = "idle"

\* number of observer calls of one kind for one request id
NotesOf(kind, id) ==
  Cardinality({ n \in 1..Len(notes) : notes[n].kind = kind /\ notes[n].id = id })

\* is there an observer call of that kind for that request id
HasNote(kind, id) ==
  \E n \in 1..Len(notes) : notes[n].kind = kind /\ notes[n].id = id

\* is there exactly one observer call of that kind for that request id
OneNote(kind, id) ==
  \E n \in 1..Len(notes) :
    /\ notes[n].kind = kind /\ notes[n].id = id
    /\ \A m \in 1..Len(notes) :
         notes[m].kind = kind /\ notes[m].id = id => m = n

\* C20: at the start of every round a round-started notification is emitted:
\* there are as many of them as rounds begun
C20_RoundStarted ==
  requests >= 1 =>
    Cardinality({ n \in 1..Len(notes) : notes[n].kind = "add_task" }) = requests

\* C20 as amended: the only start notification is the add_task made once
\* per call of function_call, before the first round, not one per round; each
\* request whose coroutine exists had exactly one 'starting' notification
\* before it was created; in every completed round each request has exactly
\* one 'starting' and one 'finished' notification, in that order; and a
\* 'finished' notification is only emitted for a handler that has completed
C20_Notifications ==
  /\ notes[1].kind = "add_task"
  /\ Cardinality({ n \in 1..Len(notes) : notes[n].kind = "add_task" }) = 1
  /\ \A i \in 1..Len(hstate) : OneNote("starting", tool_calls[i].id)
  /\ \A i \in 1..Len(tool_calls) :
       HasNote("finished", tool_calls[i].id) =>
         i <= Len(hstate) /\ hstate[i] = "done"
  /\ \A p \in ToolRounds :
       RoundCompleted(p) =>
         \A c \in 1..Len(messages[p].tool_calls) :
           LET id == messages[p].tool_calls[c].id
           IN  /\ OneNote("starting", id)
               /\ OneNote("finished", id)
               /\ \A m \in 1..Len(notes) :
                    notes[m].kind = "starting" /\ notes[m].id = id =>
                      \A n \in 1..Len(notes) :
                        notes[n].kind = "finished" /\ notes[n].id = id => m < n

\* two rounds have run: the second, of two requests, is complete
C20_Witness ==
  /\ pc = "request"
  /\ requests = 2
  /\ Len(tool_calls) = 2
  /\ Len(messages) = roundStart + 2
  /\ Len(notes) >= 7

\* C21: a website scan started from main runs WebTree with the --max-links
\* value and ends with the scan's result message, not with an error
C21_MaxLinksLimits ==
  cli.pc \in {"print", "done", "raised"}
    /\ cli.analysis = "website_full_analysis" =>
      /\ cli.err = "none"
      /\ cli.webtree = cli.max_links

\* C23: given --no-check, checker() is never run, whatever target arguments
\* are given (interactive mode included); without it and with a target,
\* checker() has completed once the analysis starts
C23_NoCheckSkips ==
  /\ cli.pc # "off" /\ cli.no_check => cli.checked = 0
  /\ cli.pc \in {"analyse", "print", "done", "raised"} /\ ~cli.no_check
       /\ cli.mode = "target" => cli.checked = 1

\* C22: a port scan whose request omits service_detection runs with version
\* detection (-sV) on, as the tool definition advertises
C22_VersionDetectionDefault ==
  \A i \in 1..Len(hstate) :
    tasks[i].name = "scan_port_scanning"
      /\ "service_detection" \notin DOMAIN tasks[i].kwargs
      /\ hstate[i] \in {"running", "done"} =>
        \E j \in 1..Len(NmapArgs(tasks[i].kwargs)) :
          NmapArgs(tasks[i].kwargs)[j] = "-sV"

\* C24: while no call has raised and no stop has happened, two overlapping
\* scan_sql_injection calls start the service at most once: no second
\* process is spawned and no handle is overwritten
C24_SingleStart ==
  ~sqlmap.erred => sqlmap.spawned <= 1

\* C25: a call whose scan failed with an error has returned the empty list
\* and left the service stopped, its process handle reset to None
C25_FailedScanStops ==
  \A s \in Slots :
    sqlmap.inround = {s} /\ sqlmap.hpc[s] = "idle"
      /\ sqlmap.outcome[s] \in {"caught", "stopped"} =>
        /\ sqlmap.retval[s] = "empty"
        /\ sqlmap.process.state = "None"

\* C26: no call is stopping the service while another call of the round is
\* between its task creation and its task deletion
C26_NoStopWhileInUse ==
  \A s, o \in Slots :
    s # o /\ sqlmap.hpc[s] = "stopping" =>
      sqlmap.hpc[o] \notin {"start", "polling", "data"}

\* C27: every task id scan() obtained has had a delete request issued unless
\* its scan is still inside the try block; one delete request per task, and
\* none without a task id
C27_TasksDeleted ==
  /\ \A t \in 1..sqlmap.ntasks :
       \/ t \in sqlmap.deleted
       \/ \E s \in Slots : sqlmap.task[s] = t
                             /\ sqlmap.hpc[s] \in {"start", "polling", "data"}
  /\ sqlmap.deleted \subseteq 1..sqlmap.ntasks
  /\ sqlmap.ndeletes = Cardinality(sqlmap.deleted)
  /\ \A s \in Slots : sqlmap.hpc[s] = "deleting" => sqlmap.task[s] \in sqlmap.deleted

\* tasks have left scan() by a normal return, by a failed start, poll or
\* data request and by a failed /task/new, and all obtained ids were deleted
C27_Witness ==
  /\ sqlmap.ntasks = 2
  /\ sqlmap.deleted = {1, 2}
  /\ sqlmap.calls = 3
  /\ \A s \in Slots : sqlmap.hpc[s] = "idle"
  /\ sqlmap.outcome[1] = "caught"
  /\ sqlmap.outcome[2] = "returned"

C30_NoTimeout ==
  \A s \in Slots :
    /\ sqlmap.exitpoll[s] \in {"none", "terminated", "failed"}
    /\ sqlmap.hpc[s] = "data" => sqlmap.exitpoll[s] = "terminated"
    /\ sqlmap.hpc[s] = "polling" => sqlmap.exitpoll[s] = "none"
    /\ sqlmap.hpc[s] # "idle" => requests = sqlmap.calledAt[s]

\* a handler is still polling after MaxPolls status requests while its
\* sibling has returned: the round is not complete
C30_Witness ==
  /\ sqlmap.inround = {1, 2}
  /\ sqlmap.hpc[1] = "polling"
  /\ sqlmap.polls[1] = MaxPolls
  /\ sqlmap.hpc[2] = "idle"
  /\ sqlmap.outcome[2] = "returned"
  /\ requests = sqlmap.calledAt[1]

\* C28: a handler that has returned returns the data its own tool wrote,
\* never data written for the other handler of the round
C28_OwnResult ==
  \A s \in Slots :
    files.pc = "on" /\ files.hpc[s] = "returned" => files.result[s] = [by |-> s]

\* position of the first request of the current round whose payload
\* decodes and whose handler exists but whose arguments do not bind to the
\* handler's parameters (0 if there is none)
FirstUnbound ==
  LET bad == { i \in 1..Len(tool_calls) :
                 LET args == JsonLoads(tool_calls[i].arguments)
                     name == tool_calls[i].name
                 IN  /\ name \in function_map
                     /\ args # DecodeError
                     /\ ~( /\ args # JsonArray
                           /\ Required(name) \subseteq DOMAIN args
                           /\ DOMAIN args \subseteq Params(name) ) }
  IN  IF bad = {} THEN 0
      ELSE CHOOSE i \in bad : \A j \in bad : i <= j

\* C31: if a request of the round decodes but does not bind (not an object,
\* a required parameter missing, an undeclared parameter), no handler of the
\* round executes, no tool-role message is appended, and the loop over the
\* requests ends at that request or earlier, at that request with TypeError
C31_BindBeforeHandlers ==
  LET first == FirstUnbound
  IN  flavor \in Flavors /\ first # 0 =>
        /\ pc \in {"start", "raised", "closed"}
        /\ k <= first
        /\ \A i \in 1..Len(hstate) : hstate[i] = "created"
        /\ Len(messages) = roundStart
        /\ pc # "start" /\ k = first => err = "TypeError"

\* the third request was a JSON array: TypeError was raised after the
\* coroutines of the first two requests had been created, and none ran
C31_Witness ==
  /\ FirstUnbound = 3
  /\ JsonLoads(tool_calls[3].arguments) = JsonArray
  /\ pc = "closed"
  /\ err = "TypeError"
  /\ Len(hstate) = 2

\* the text website_full_analysis owes to what check and scan did
SiteMessageFor(wt) ==
  CASE wt.checked = "False" -> SiteUnavailable
    [] wt.scan = "output" -> SiteSuccess
    [] wt.scan = "empty" -> SiteNoFindings
    [] wt.scan \in {"timeout", "nonzero", "unexpected"} -> SiteFailed
    [] OTHER -> NoValue

C34_StopClears ==
  sqlmap.last = "stop" =>
    /\ sqlmap.how # "raised"
    /\ sqlmap.err = "none"
    /\ sqlmap.process = "None"
    /\ sqlmap.before # "handle" => sqlmap.how = "not running"

====
